---- MODULE Spec2Model ----
(***************************************************************************)
(* State-machine model of the management commands of the eleri app:        *)
(*   - initial_sentences (src/eleri/management/commands/initial_sentences) *)
(*     the batched, retrying sentence generator;                           *)
(*   - bulk_import_finnish, in its two variants (src/eleri/... with the    *)
(*     in-memory dict, src/gruffud/eleri/... with ignore_conflicts=True).  *)
(* The Lexicon Store is the Word table plus the Sentence table and its two *)
(* many-to-many join tables.                                               *)
(***************************************************************************)
EXTENDS Integers, Sequences, FiniteSets, TLC

\* ---------------------------------------------------------------- bounds
MaxWords == 3       \* rows of the Word table in the generator's runs
MaxRetries == 1     \* consecutive InternalServerErrors on one chunk
MaxLines == 3       \* lines of the importer's input file
MaxImports == 2     \* invocations of the importer on that file

\* ------------------------------------------------------- program constants
RATE_LIMIT_ERROR == 2

Languages == {"fi", "ru"}
BatchSizes == {1, 2}        \* the values drawn for BATCH (100 in the source)
Frequencies == {1, 2}
Texts == {"s", "t"}
Missing == "<missing>"      \* a key the nested response object lacks

VARIABLES
    \* the Lexicon Store
    table,            \* Word rows: sequence of [language, form, frequency]
    sentences,        \* Sentence rows: sequence of [language, text]; id = index
    sentence_words,   \* Sentence.words join table: set of <<sentence, word>>
    translations,     \* Sentence.translations join table: set of <<from, to>>
    \* initial_sentences: Command.handle
    BATCH,            \* the module's BATCH setting
    pc,               \* "idle" | "loop" | "request" | "words" | "exit"
    options,          \* [first_language, second_language], the language pair
    count,            \* words.count() taken before the loop
    batch_size,
    index,            \* the for loop's index
    words_batch,      \* the evaluated slice words[index:index + batch_size]
    data,             \* the parsed response: a function from its keys to entries
    pos,              \* position of the inner for loop in words_batch
    requests,         \* service requests sent for the chunk under way
    answer,           \* how the last request ended: "none" | "ok" |
                      \* "RateLimitError" | "InternalServerError"
    exit_status,      \* the process's exit status once pc = "exit"
    \* observation of the run under way
    initial,          \* the candidate words when the run started
    processed,        \* words reported 'Creating sentences' or 'No data', in order
    skipped,          \* words reported 'No data' in this run
    complete,         \* every response of the run so far held every submitted form
    \* bulk_import_finnish: Command.handle
    language_table,   \* Language rows: the set of their codes
    file,             \* the input file: sequence of lines [form, pct]
    trash,            \* the reject log: sequence of lines
    bulk,             \* the staged Word objects, in insertion order
    line,             \* lines of the file read so far
    ipc,              \* "idle" | "scan" | "done" | "failed"
    imports,          \* invocations of the importer so far
    before            \* the Word table when the invocation under way started

store == <<sentences, sentence_words, translations>>
gen == <<BATCH, pc, options, count, batch_size, index, words_batch, data,
         pos, requests, answer, exit_status, initial, processed, skipped,
         complete>>
imp == <<language_table, file, trash, bulk, line, ipc, imports, before>>
vars == <<table, store, gen, imp>>

Range(s) == {s[i] : i \in DOMAIN s}
Min(a, b) == IF a < b THEN a ELSE b

\* ------------------------------------------------------------ the queries
\* Word.objects.filter(sentence__isnull=True): the word has no linked sentence.
HasSentence(sw, w) == \E p \in sw : p[2] = w

\* The query without its sentence__isnull=True filter.
CandidatesOfLanguage(tb, sw, lang) == {w \in DOMAIN tb : tb[w].language = lang}

\* words = Word.objects.filter(language=first_language, sentence__isnull=True)
Candidates(tb, sw, lang) ==
    {w \in DOMAIN tb : tb[w].language = lang /\ ~HasSentence(sw, w)}

\* The query without its order_by: every listing of S.
OrderByNothing(tb, S) ==
    {q \in [1..Cardinality(S) -> S] : \A i, j \in DOMAIN q : i # j => q[i] # q[j]}

\* .order_by('-frequency'): every listing of S by non-increasing frequency
\* (the order among equal frequencies is the database's choice).
OrderByFrequency(tb, S) ==
    {q \in [1..Cardinality(S) -> S] :
        /\ \A i, j \in DOMAIN q : i # j => q[i] # q[j]
        /\ \A i, j \in DOMAIN q : i < j => tb[q[i]].frequency >= tb[q[j]].frequency}

\* words[index:index + batch_size]: OFFSET index LIMIT batch_size of the query,
\* evaluated against the store as it is when the slice is first iterated.
Slice(q, from, to) == SubSeq(q, from + 1, Min(to, Len(q)))

\* ------------------------------------------------- the per-word transaction
\* Sentence.objects.get_or_create(language=, text=): the id, and the table.
Matches(ss, lang, text) == {i \in DOMAIN ss : ss[i].language = lang /\ ss[i].text = text}

\* create() without the get(): a row is always added.
GetOrCreateAlways(ss, lang, text) ==
    [id |-> Len(ss) + 1, rows |-> Append(ss, [language |-> lang, text |-> text])]

GetOrCreate(ss, lang, text) ==
    IF Matches(ss, lang, text) # {}
    THEN [id |-> CHOOSE i \in Matches(ss, lang, text) : TRUE, rows |-> ss]
    ELSE [id |-> Len(ss) + 1, rows |-> Append(ss, [language |-> lang, text |-> text])]

\* The first of the two adds alone.
AddTranslationsOneWay(tr, s, t) == tr \cup {<<s, t>>}

\* sentence.translations.add(translation); translation.translations.add(sentence)
AddTranslations(tr, s, t) == tr \cup {<<s, t>>, <<t, s>>}

\* The word linked to no sentence.
AddWordSkipped(sw, s, w) == sw

\* sentence.words.add(word)
AddWord(sw, s, w) == sw \cup {<<s, w>>}

\* The body of `with transaction.atomic():` for one word. A KeyError on a key
\* the entry lacks leaves the block by exception and the block rolls back.
WordTransaction(ss, sw, tr, opts, w, entry) ==
    LET rolledBack == [ok |-> FALSE, sentences |-> ss, sentence_words |-> sw,
                       translations |-> tr]
    IN  IF entry.original_sentence = Missing THEN rolledBack
        ELSE LET a == GetOrCreate(ss, opts.first_language, entry.original_sentence)
             IN  IF entry.translated_sentence = Missing THEN rolledBack
                 ELSE LET b == GetOrCreate(a.rows, opts.second_language,
                                           entry.translated_sentence)
                      IN  [ok |-> TRUE,
                           sentences |-> b.rows,
                           translations |-> AddTranslations(tr, a.id, b.id),
                           sentence_words |-> AddWord(sw, a.id, w)]

\* --------------------------------------------------------------- the runs
\* The values a key of the response may hold: both sentences, or an object
\* that lacks one of the two keys.
Entries ==
    [original_sentence : Texts, translated_sentence : Texts]
    \cup {[original_sentence |-> Missing, translated_sentence |-> t] : t \in {"s"}}
    \cup {[original_sentence |-> t, translated_sentence |-> Missing] : t \in {"s"}}

\* The Word tables the generator starts from: (language, form) is unique. The
\* ids are arbitrary, so one table stands for its renumberings: the rows are
\* listed by language and then by frequency.
GeneratorTables ==
    {tb \in [1..MaxWords -> [language : Languages, form : 1..MaxWords,
                             frequency : Frequencies]] :
        /\ \A i \in 1..MaxWords : tb[i].form = i
        /\ \A i, j \in 1..MaxWords : i < j =>
              \/ (tb[i].language = "fi" /\ tb[j].language = "ru")
              \/ (tb[i].language = tb[j].language
                    /\ tb[i].frequency >= tb[j].frequency)}

\* The importer has not been invoked.
ImporterIdle ==
    /\ language_table = Languages
    /\ file = <<>>
    /\ trash = <<>>
    /\ bulk = <<>>
    /\ line = 0
    /\ ipc = "idle"
    /\ imports = 0
    /\ before = <<>>

\* No sentence is stored and the generator has not been invoked.
GeneratorIdle ==
    /\ sentences = <<>>
    /\ sentence_words = {}
    /\ translations = {}
    /\ pc = "idle"
    /\ count = 0
    /\ batch_size = 0
    /\ index = 0
    /\ words_batch = <<>>
    /\ data = <<>>
    /\ pos = 0
    /\ requests = 0
    /\ answer = "none"
    /\ exit_status = 0
    /\ initial = {}
    /\ processed = <<>>
    /\ skipped = {}
    /\ complete = TRUE

Init ==
    /\ ImporterIdle
    /\ GeneratorIdle
    /\ table \in GeneratorTables
    /\ BATCH \in BatchSizes
    \* the table holds words of either language, so one first language stands
    \* for both
    /\ options \in [first_language : {"fi"}, second_language : Languages]

\* handle(), lines 58-71: the command is invoked; it counts the candidates and
\* returns at once when there are none.
Start ==
    /\ pc \in {"idle", "exit"}
    /\ LET words == Candidates(table, sentence_words, options.first_language)
           c == Cardinality(words)
       IN  /\ count' = c
           /\ batch_size' = IF BATCH # 0 THEN BATCH ELSE c
           /\ pc' = IF c = 0 THEN "exit" ELSE "loop"
           /\ initial' = words
    /\ index' = 0
    /\ words_batch' = <<>>
    /\ data' = <<>>
    /\ pos' = 0
    /\ requests' = 0
    /\ answer' = "none"
    /\ exit_status' = 0
    /\ processed' = <<>>
    /\ skipped' = {}
    /\ complete' = TRUE
    /\ UNCHANGED <<imp, table, store, BATCH, options>>

\* for index in range(0, count, batch_size), lines 72-74, with the slice as it
\* evaluates when the request's payload is built from it.
FetchChunk ==
    /\ pc = "loop"
    /\ index < count
    /\ \E q \in OrderByFrequency(table,
                    Candidates(table, sentence_words, options.first_language)) :
        words_batch' = Slice(q, index, index + batch_size)
    /\ pc' = "request"
    /\ requests' = 0
    /\ UNCHANGED <<imp, table, store, BATCH, options, count, batch_size, index,
                   data, pos, answer, exit_status, initial, skipped,
                   processed, complete>>

\* The range is exhausted: handle() returns.
Finish ==
    /\ pc = "loop"
    /\ index >= count
    /\ pc' = "exit"
    /\ exit_status' = 0
    /\ UNCHANGED <<imp, table, store, BATCH, options, count, batch_size, index,
                   words_batch, data, pos, requests, answer, initial, skipped,
                   processed,
                   complete>>

BatchForms == {table[words_batch[i]].form : i \in DOMAIN words_batch}

\* The JSON objects the service may answer a request for forms F with: any
\* of the forms may be missing as a key.
Responses(F) == UNION {[K -> Entries] : K \in SUBSET F}

\* The request succeeds (break), the content parses, lines 77-109.
RequestOK ==
    /\ pc = "request"
    /\ requests' = requests + 1
    /\ \E d \in Responses(BatchForms) :
        /\ data' = d
        /\ complete' = (complete /\ BatchForms \subseteq DOMAIN d)
    /\ answer' = "ok"
    /\ pos' = 1
    /\ pc' = "words"
    /\ UNCHANGED <<imp, table, store, BATCH, options, count, batch_size, index,
                   words_batch, exit_status, initial, skipped, processed>>

\* RateLimitError handled as the transient error is: written, and the
\* request sent again.
RateLimitRetried ==
    /\ pc = "request"
    /\ requests < MaxRetries + 1
    /\ requests' = requests + 1
    /\ answer' = "RateLimitError"
    /\ UNCHANGED <<imp, table, store, BATCH, pc, options, count, batch_size, index,
                   words_batch, data, pos, exit_status, initial, skipped,
                   processed, complete>>

\* except RateLimitError: raise CommandError(returncode=RATE_LIMIT_ERROR).
RateLimit ==
    /\ pc = "request"
    /\ requests' = requests + 1
    /\ answer' = "RateLimitError"
    /\ pc' = "exit"
    /\ exit_status' = RATE_LIMIT_ERROR
    /\ UNCHANGED <<imp, table, store, BATCH, options, count, batch_size, index,
                   words_batch, data, pos, initial, skipped, processed, complete>>

\* InternalServerError handled without the continue: the loop is left by the
\* break and the words are processed with what data holds.
ServerErrorBreaks ==
    /\ pc = "request"
    /\ requests < MaxRetries
    /\ requests' = requests + 1
    /\ answer' = "InternalServerError"
    /\ pos' = 1
    /\ pc' = "words"
    /\ UNCHANGED <<imp, table, store, BATCH, options, count, batch_size, index,
                   words_batch, data, exit_status, initial, skipped, processed,
                   complete>>

\* except InternalServerError: write the error, continue.
ServerError ==
    /\ pc = "request"
    /\ requests < MaxRetries
    /\ requests' = requests + 1
    /\ answer' = "InternalServerError"
    /\ UNCHANGED <<imp, table, store, BATCH, pc, options, count, batch_size, index,
                   words_batch, data, pos, exit_status, initial, skipped,
                   processed, complete>>

\* loads() raises on a content that is no JSON document: the command dies.
BadContent ==
    /\ pc = "request"
    /\ requests' = requests + 1
    /\ answer' = "ok"
    /\ pc' = "exit"
    /\ exit_status' = 1
    /\ UNCHANGED <<imp, table, store, BATCH, options, count, batch_size, index,
                   words_batch, data, pos, initial, skipped, processed, complete>>

\* One iteration of `for word in words_batch`, lines 110-133.
ProcessWord ==
    /\ pc = "words"
    /\ pos <= Len(words_batch)
    /\ LET w == words_batch[pos]
           entry == data[table[w].form]     \* read only when the key is there
       IN  /\ processed' = Append(processed, w)
           /\ IF table[w].form \notin DOMAIN data
              THEN /\ pos' = pos + 1
                   /\ skipped' = skipped \cup {w}
                   /\ UNCHANGED <<store, pc, exit_status>>
              ELSE LET r == WordTransaction(sentences, sentence_words, translations,
                                            options, w, entry)
                   IN  /\ UNCHANGED skipped
                       /\ sentences' = r.sentences
                       /\ sentence_words' = r.sentence_words
                       /\ translations' = r.translations
                       /\ IF r.ok
                          THEN /\ pos' = pos + 1
                               /\ UNCHANGED <<pc, exit_status>>
                          ELSE /\ pc' = "exit"
                               /\ exit_status' = 1
                               /\ UNCHANGED pos
    /\ UNCHANGED <<imp, table, BATCH, options, count, batch_size, index,
                   words_batch, data, requests, answer, initial, complete>>

\* The inner loop is over: the for loop steps to the next index.
NextChunk ==
    /\ pc = "words"
    /\ pos > Len(words_batch)
    /\ index' = index + batch_size
    /\ pc' = "loop"
    \* words_batch, data and word are rebound before they are read again
    /\ words_batch' = <<>>
    /\ data' = <<>>
    /\ pos' = 0
    /\ requests' = 0
    /\ UNCHANGED <<imp, table, store, BATCH, options, count, batch_size,
                   answer, exit_status, initial, skipped, processed, complete>>

Next ==
    \/ Start
    \/ FetchChunk
    \/ Finish
    \/ RequestOK
    \/ RateLimit
    \/ ServerError
    \/ BadContent
    \/ ProcessWord
    \/ NextChunk

Spec == Init /\ [][Next]_vars

\* The command is one thread of blocking calls: a step that can be taken is
\* taken. The service is assumed to answer each chunk, in the end, with
\* something else than InternalServerError.
Fairness ==
    WF_vars(\/ FetchChunk
            \/ Finish
            \/ ProcessWord
            \/ NextChunk
            \/ RequestOK
            \/ RateLimit
            \/ BadContent)

SpecFair == Spec /\ Fairness

Linked(w) == HasSentence(sentence_words, w)
FrequencyOf(w) == table[w].frequency

\* ------------------------------------------------------ bulk_import_finnish
LANG == "fi"
FileForms == {1, 2}
Percents == {5, 7}      \* in hundredths of a percent: "0.05", "0.07"
NoNumber == 0           \* a percentage the pattern does not match: "invalid"

Lines == [form : FileForms, pct : Percents \cup {NoNumber}]

\* regexp.search(line): the groups, when the line matches RE.
Parses(l) == l.pct # NoNumber

\* float(groups[FREQ]) / 100, in millionths.
Frequency(pct) == pct * 100

\* Word(language=, form=groups[FORM], frequency=float(groups[FREQ]) / 100)
Word(lang, l) == [language |-> lang, form |-> l.form, frequency |-> Frequency(l.pct)]

\* Word.Meta.unique_together = ('language', 'form')
Conflicts(a, b) == a.language = b.language /\ a.form = b.form

Unique(tb) == \A i, j \in DOMAIN tb : Conflicts(tb[i], tb[j]) => i = j

\* Word.objects.bulk_create(objs): one INSERT of all the rows; a row that
\* breaks the unique constraint raises IntegrityError and nothing is stored.
BulkCreate(tb, objs) ==
    IF Unique(tb \o objs)
    THEN [ok |-> TRUE, table |-> tb \o objs]
    ELSE [ok |-> FALSE, table |-> tb]

\* The insertion with no unique constraint to skip on.
BulkCreateNoConstraint(tb, objs) == tb \o objs

\* Word.objects.bulk_create(objs, ignore_conflicts=True): a row that breaks
\* the unique constraint, against the table or an earlier row, is skipped.
RECURSIVE BulkCreateIgnoreConflicts(_, _)
BulkCreateIgnoreConflicts(tb, objs) ==
    IF objs = <<>> THEN tb
    ELSE BulkCreateIgnoreConflicts(
            IF \E i \in DOMAIN tb : Conflicts(tb[i], Head(objs))
            THEN tb ELSE Append(tb, Head(objs)),
            Tail(objs))

\* The Word tables an import starts from: rows of earlier imports, whose
\* frequency may differ from the file's.
StoredWords == [language : Languages, form : FileForms, frequency : {Frequency(9)}]

ImporterTables ==
    {<<>>} \cup {<<r>> : r \in StoredWords}
           \cup {<<[language |-> LANG, form |-> 1, frequency |-> Frequency(9)], r>> :
                    r \in {x \in StoredWords : x.language # LANG \/ x.form # 1}}

Files == UNION {[1..n -> Lines] : n \in 0..MaxLines}

InitImport ==
    /\ GeneratorIdle
    /\ BATCH = 1
    /\ options = [first_language |-> "fi", second_language |-> "ru"]
    /\ table \in ImporterTables
    /\ language_table \in {L \in SUBSET Languages :
                              \A i \in DOMAIN table : table[i].language \in L}
    /\ file \in Files
    /\ trash = <<>>
    /\ bulk = <<>>
    /\ line = 0
    /\ ipc = "idle"
    /\ imports = 0
    /\ before = <<>>

\* src/eleri: handle(), lines 54-59: the two files are opened, the reject
\* log truncated.
Open ==
    /\ ipc \in {"idle", "done", "failed"}
    /\ imports < MaxImports
    /\ imports' = imports + 1
    /\ bulk' = <<>>
    /\ trash' = <<>>
    /\ line' = 0
    /\ before' = table
    /\ ipc' = "scan"
    /\ UNCHANGED <<table, store, gen, language_table, file>>

\* The membership test that never finds the form.
StagedNever(b, form) == FALSE

\* groups[FORM] in bulk
Staged(b, form) == \E i \in DOMAIN b : b[i].form = form

\* src/eleri: one iteration of the loop over the file, lines 60-80.
ReadLine ==
    /\ ipc = "scan"
    /\ line < Len(file)
    /\ line' = line + 1
    /\ LET l == file[line + 1]
       IN  IF ~Parses(l)
           THEN /\ trash' = Append(trash, l)
                /\ UNCHANGED bulk
           ELSE IF Staged(bulk, l.form)
           THEN /\ trash' = Append(trash, l)
                /\ UNCHANGED bulk
           ELSE /\ bulk' = Append(bulk, Word(LANG, l))
                /\ UNCHANGED trash
    /\ UNCHANGED <<table, store, gen, language_table, file, ipc, imports, before>>

\* src/eleri: the file is read, lines 81-85.
Insert ==
    /\ ipc = "scan"
    /\ line = Len(file)
    /\ IF bulk # <<>>
       THEN LET r == BulkCreate(table, bulk)
            IN  /\ table' = r.table
                /\ ipc' = IF r.ok THEN "done" ELSE "failed"
       ELSE /\ ipc' = "done"
            /\ UNCHANGED table
    /\ UNCHANGED <<store, gen, language_table, file, trash, bulk, line, imports,
                   before>>

NextImport ==
    \/ Open
    \/ ReadLine
    \/ Insert

SpecImport == InitImport /\ [][NextImport]_vars

\* src/gruffud: handle(), lines 52-61: Language.objects.get_or_create(code='fi'),
\* then the two files are opened.
OpenG ==
    /\ ipc \in {"idle", "done", "failed"}
    /\ imports < MaxImports
    /\ imports' = imports + 1
    /\ language_table' = language_table \cup {"fi"}
    /\ bulk' = <<>>
    /\ trash' = <<>>
    /\ line' = 0
    /\ before' = table
    /\ ipc' = "scan"
    /\ UNCHANGED <<table, store, gen, file>>

\* src/gruffud: one iteration of the loop over the file, lines 62-76.
ReadLineG ==
    /\ ipc = "scan"
    /\ line < Len(file)
    /\ line' = line + 1
    /\ LET l == file[line + 1]
       IN  IF ~Parses(l)
           THEN /\ trash' = Append(trash, l)
                /\ UNCHANGED bulk
           ELSE /\ bulk' = Append(bulk, Word("fi", l))
                /\ UNCHANGED trash
    /\ UNCHANGED <<table, store, gen, language_table, file, ipc, imports, before>>

\* src/gruffud: the file is read, lines 77-81.
InsertG ==
    /\ ipc = "scan"
    /\ line = Len(file)
    /\ table' = IF bulk # <<>> THEN BulkCreateIgnoreConflicts(table, bulk) ELSE table
    /\ ipc' = "done"
    /\ UNCHANGED <<store, gen, language_table, file, trash, bulk, line, imports,
                   before>>

NextImportG ==
    \/ OpenG
    \/ ReadLineG
    \/ InsertG

SpecImportG == InitImport /\ [][NextImportG]_vars

\* ================================================================ claims

\* C1 (as claimed): a run that ends without a fatal error, every response
\* of which held a key for every submitted form, leaves every word that was
\* a candidate when it started with at least one linked sentence.
C1_EveryCandidateCovered ==
    (pc = "exit" /\ exit_status = 0 /\ complete) => \A w \in initial : Linked(w)

\* C2 (as claimed): of the words of a chunk that have response data, the
\* writes of all are committed or of none, also when the run has died on a
\* later word of the chunk.
C2_ChunkAllOrNothing ==
    pc = "exit" =>
        LET withData == {w \in Range(words_batch) : table[w].form \in DOMAIN data}
            written == {w \in withData : Linked(w)}
        IN  written = {} \/ written = withData

\* C3: in every committed state the translation links are symmetric: B is a
\* translation of A exactly when A is a translation of B.
C3_TranslationsSymmetric ==
    \A a, b \in DOMAIN sentences :
        <<a, b>> \in translations <=> <<b, a>> \in translations

\* C3 witness: a run died inside a word's transaction and the store holds
\* a pair of linked sentences.
C3_Witness ==
    /\ pc = "exit"
    /\ exit_status = 1
    /\ \E a, b \in DOMAIN sentences : a # b /\ <<a, b>> \in translations

\* C4: when the transaction of a word whose form is a key of the response
\* commits, a sentence of the first language with the response's
\* original_sentence is linked to the word, and a sentence of the second
\* language with its translated_sentence is a translation of it; when
\* neither text was stored before, the rows added are exactly one with the
\* original text and one with the translated text.
C4_PerWordResult ==
    [][(pc = "words" /\ pos' = pos + 1
            /\ table[words_batch[pos]].form \in DOMAIN data) =>
        LET w == words_batch[pos]
            e == data[table[w].form]
            src == [language |-> options.first_language, text |-> e.original_sentence]
            dst == [language |-> options.second_language,
                    text |-> e.translated_sentence]
            added == {i \in DOMAIN sentences' : i > Len(sentences)}
        IN  /\ SubSeq(sentences', 1, Len(sentences)) = sentences
            /\ \E a, b \in DOMAIN sentences' :
                  /\ sentences'[a] = src
                  /\ sentences'[b] = dst
                  /\ <<a, w>> \in sentence_words'
                  /\ <<a, b>> \in translations'
                  /\ <<b, a>> \in translations'
            /\ (Matches(sentences, src.language, src.text) = {}
                    /\ Matches(sentences, dst.language, dst.text) = {}) =>
                  /\ Cardinality({i \in added : sentences'[i] = src}) = 1
                  /\ Cardinality({i \in added : sentences'[i] = dst}) = 1
                  /\ \A i \in added : sentences'[i] \in {src, dst}
      ]_vars

\* C4 witness: the first word of a chunk has committed into an empty
\* Sentence table and two sentences are stored.
C4_Witness ==
    /\ pc = "words"
    /\ pos = 2
    /\ table[words_batch[1]].form \in DOMAIN data
    /\ Linked(words_batch[1])
    /\ Len(sentences) = 2
    /\ sentences[1].text = data[table[words_batch[1]].form].original_sentence

\* C5: the words a run reports, across its chunks, come in non-increasing
\* frequency.
C5_NonIncreasingFrequency ==
    \A i, j \in DOMAIN processed :
        i < j => FrequencyOf(processed[i]) >= FrequencyOf(processed[j])

\* C5 witness: a word of a later chunk is reported after a word of an
\* earlier chunk got its sentence, and their frequencies differ.
C5_Witness ==
    /\ index > 0
    /\ Len(processed) >= 2
    /\ processed[Len(processed)] \in Range(words_batch)
    /\ Linked(processed[1])
    /\ FrequencyOf(processed[1]) # FrequencyOf(processed[Len(processed)])

\* C6: no word that has a linked sentence is in a fetched chunk or in a
\* request sent to the service.
C6_NoLinkedWordSubmitted ==
    pc = "request" => \A w \in Range(words_batch) : ~Linked(w)

\* C6 witness: the first chunk of a run is fetched when an earlier run has
\* linked a word of the first language.
C6_Witness ==
    /\ pc = "request"
    /\ index = 0
    /\ words_batch # <<>>
    /\ \E w \in DOMAIN table :
          table[w].language = options.first_language /\ Linked(w)

\* The lines of the file the importer has to reject: those the pattern does
\* not match, and those whose form an earlier matching line has.
Rejected(j) ==
    \/ ~Parses(file[j])
    \/ \E k \in 1..(j - 1) : Parses(file[k]) /\ file[k].form = file[j].form

RECURSIVE RejectsOf(_)
RejectsOf(n) ==
    IF n = 0 THEN <<>>
    ELSE IF Rejected(n) THEN Append(RejectsOf(n - 1), file[n])
    ELSE RejectsOf(n - 1)

RECURSIVE AcceptsOf(_)
AcceptsOf(n) ==
    IF n = 0 THEN <<>>
    ELSE IF Rejected(n) THEN AcceptsOf(n - 1)
    ELSE Append(AcceptsOf(n - 1), Word(LANG, file[n]))

\* The table held none of the forms the file stages when the run started.
NoneStored ==
    \A i \in DOMAIN before, j \in DOMAIN file :
        Parses(file[j]) => ~Conflicts(before[i], Word(LANG, file[j]))

\* C7: a run of the importer against a table that holds none of the file's
\* forms finishes, and accounts for each line once: the rows it stored plus
\* the lines of the reject log are as many as the lines of the file; the
\* reject log holds the non-matching lines and the repeated forms, and the
\* rows stored are one per distinct form, the first line's.
C7_EveryLineAccounted ==
    (ipc \in {"done", "failed"} /\ NoneStored) =>
        /\ ipc = "done"
        /\ (Len(table) - Len(before)) + Len(trash) = Len(file)
        /\ trash = RejectsOf(Len(file))
        /\ table = before \o AcceptsOf(Len(file))

\* C7 witness: a finished run that stored a row and rejected a line the
\* pattern does not match and a line repeating a form.
C7_Witness ==
    /\ ipc = "done"
    /\ NoneStored
    /\ Len(table) > Len(before)
    /\ \E j \in DOMAIN file : ~Parses(file[j])
    /\ \E j \in DOMAIN file : Parses(file[j]) /\ Rejected(j)

\* C8: a second run of the conflict-tolerant importer on the file leaves the
\* Word table as the first run left it: no row added, no form or frequency
\* changed.
C8_SecondImportChangesNothing ==
    (imports >= 2 /\ ipc = "done") => table = before

\* C8 witness: the second run has finished; the first had stored a row of
\* the file, and the file repeats a form with another percentage.
C8_Witness ==
    /\ imports = 2
    /\ ipc = "done"
    /\ bulk # <<>>
    /\ \E i \in DOMAIN table : table[i].frequency # Frequency(9)
    /\ \E j, k \in DOMAIN file :
          /\ j < k
          /\ Parses(file[j]) /\ Parses(file[k])
          /\ file[j].form = file[k].form
          /\ file[j].pct # file[k].pct

\* C9 (as claimed): once the files are opened the run reaches 'Import
\* finished', whatever the file and the Word table hold.
C9_ImportNeverFails ==
    ipc # "failed"

\* C11 (as claimed): a word of a chunk whose form is no key of the response
\* gets no sentence and no link, the loop goes on to the next word, and the
\* word still has no linked sentence when the run ends, so that the next
\* run selects it.
C11_SkippedWordStaysUnlinked ==
    pc = "exit" => \A w \in skipped : ~Linked(w)

\* C11, the step alone: reporting 'No data' for a word writes nothing to the
\* store and moves the loop to the next word of the chunk.
C11_SkipWritesNothing ==
    [][(pc = "words" /\ pos <= Len(words_batch)
            /\ table[words_batch[pos]].form \notin DOMAIN data) =>
        (UNCHANGED store /\ pc' = "words" /\ pos' = pos + 1)]_vars

\* C10: a request that ends in RateLimitError ends the run with exit status
\* RATE_LIMIT_ERROR; the store is not written by that step nor after it, and
\* the run sends no further request.
C10_RateLimitFatal ==
    [][/\ answer' = "RateLimitError" =>
            (pc' = "exit" /\ exit_status' = RATE_LIMIT_ERROR)
       /\ (answer # "RateLimitError" /\ answer' = "RateLimitError") =>
            UNCHANGED store
       /\ answer = "RateLimitError" =>
            (UNCHANGED store /\ requests' <= requests)
      ]_vars

\* C10 witness: the request for a later chunk was rejected after the run
\* had committed sentences for an earlier chunk.
C10_Witness ==
    /\ answer = "RateLimitError"
    /\ pc = "exit"
    /\ index > 0
    /\ \E w \in initial : Linked(w)

\* C12: no two Sentence rows have the same (language, text); when a word's
\* transaction commits and the response's original or translated sentence
\* is stored already, no row is added for it, and the stored row gets the
\* word link and the translation links.
C12_SentencesUnique ==
    /\ [](\A i, j \in DOMAIN sentences : sentences[i] = sentences[j] => i = j)
    /\ [][(pc = "words" /\ pos' = pos + 1
                /\ table[words_batch[pos]].form \in DOMAIN data) =>
            LET w == words_batch[pos]
                e == data[table[w].form]
                src == [language |-> options.first_language,
                        text |-> e.original_sentence]
                dst == [language |-> options.second_language,
                        text |-> e.translated_sentence]
                oldSrc == Matches(sentences, src.language, src.text)
                oldDst == Matches(sentences, dst.language, dst.text)
                added == {i \in DOMAIN sentences' : i > Len(sentences)}
                fresh == {k \in {src, dst} : Matches(sentences, k.language, k.text) = {}}
            IN  /\ SubSeq(sentences', 1, Len(sentences)) = sentences
                /\ Cardinality(added) = Cardinality(fresh)
                /\ \A i \in added : sentences'[i] \in fresh
                /\ \A a \in oldSrc :
                      /\ <<a, w>> \in sentence_words'
                      /\ \E b \in DOMAIN sentences' :
                            /\ sentences'[b] = dst
                            /\ <<a, b>> \in translations'
                            /\ <<b, a>> \in translations'
                /\ \A b \in oldDst :
                      \E a \in DOMAIN sentences' :
                          /\ sentences'[a] = src
                          /\ <<a, w>> \in sentence_words'
                          /\ <<a, b>> \in translations'
                          /\ <<b, a>> \in translations'
          ]_vars

\* C12 witness: the response gave the two words of one chunk the same
\* original sentence, and both are linked to the one row that holds it.
C12_Witness ==
    /\ pc = "words"
    /\ Len(words_batch) = 2
    /\ pos = 3
    /\ {table[words_batch[1]].form, table[words_batch[2]].form} \subseteq DOMAIN data
    /\ data[table[words_batch[1]].form].original_sentence
            = data[table[words_batch[2]].form].original_sentence
    /\ \E a \in DOMAIN sentences :
          /\ <<a, words_batch[1]>> \in sentence_words
          /\ <<a, words_batch[2]>> \in sentence_words

\* C13: after an InternalServerError the request for the same chunk, with
\* the same words, is sent again and nothing is written in between; the
\* store is written and the loop steps to the next chunk only after a
\* request for the chunk under way succeeded; a transient failure never ends
\* the run, and a run whose chunks are all answered in the end with a
\* success or a RateLimitError terminates.
C13_RetrySameChunk ==
    /\ [][answer = "InternalServerError" =>
            /\ pc = "request"
            /\ requests' = requests + 1
            /\ UNCHANGED <<index, words_batch, store>>]_vars
    /\ [][(store' # store \/ index' > index) =>
            (pc = "words" /\ answer = "ok")]_vars
    /\ (pc \in {"loop", "request", "words"}) ~> (pc = "exit")

\* C13 witness: the first request for a chunk failed transiently, the
\* second succeeded, and a word of the chunk has been written.
C13_Witness ==
    /\ pc = "words"
    /\ answer = "ok"
    /\ requests = 2
    /\ pos > 1
    /\ Linked(words_batch[1])

====
